---- MODULE Spec2Model ----
(***************************************************************************)
(* Model of the call signaling core, src/src/lib/webrtc.ts.                *)
(*                                                                         *)
(* Two WebRTCCall objects (one per party) are constructed with the same    *)
(* callId.  They share one Firestore document calls/{callId} and its       *)
(* candidates sub-collection.  Every `await` of an async method is a       *)
(* suspension point: an invocation is a task that sits at the awaited      *)
(* operation until a later step resumes it, and steps of different tasks   *)
(* interleave freely (browser event loop).                                 *)
(***************************************************************************)
EXTENDS Bags, FiniteSets, Integers, Sequences, TLC

\* ---------------------------------------------------------------- bounds
MaxInvocations == 3      \* method invocations made by the two users in a run
MaxCandidates == 1       \* ICE candidate documents appended in a run
MaxWrites == 4           \* writes to the call document in a run
MaxMalformed == 1        \* malformed candidate documents arriving in a run
MaxClock == 2            \* largest value of Date.now() in a run
MaxAttempts == 2         \* call attempts that obtain an id in a run

\* ------------------------------------------------------------- constants
Session == {"caller", "receiver"}

\* The methods each party's call screen invokes on its WebRTCCall object.
Methods(s) ==
  IF s = "caller" THEN {"startCall", "endCall"}
                  ELSE {"answerCall", "rejectCall", "endCall"}

NoDoc == [exists |-> FALSE]

Terminal == {"ended", "rejected", "missed"}

VARIABLES
  callLog,          \* successive contents of the document calls/{callId}
  candidates,       \* the documents of calls/{callId}/candidates, in order
  localStream,      \* this.localStream of each session (0 = null)
  peerConnection,   \* this.peerConnection of each session (0 = null)
  unsubscribe,      \* this.unsubscribe of each session (0 = null)
  streams,          \* every MediaStream getUserMedia has returned
  pcs,              \* every RTCPeerConnection that has been constructed
  recSubs,          \* every onSnapshot listener installed on the document
  candSubs,         \* every onSnapshot listener installed on candidates
  tasks,            \* suspended invocations (a bag of task records)
  invocations,      \* number of user invocations made so far
  last,             \* the step that produced the current state
  clock,            \* the value Date.now() returns
  attempts,         \* the call attempts that have obtained an id, in order
  trackEvents,      \* the track events delivered so far, as <<connection, n>>
  remoteStream,     \* this.remoteStream of each session (0 = null)
  remoteStreamCalls, \* how often each session's onRemoteStream has been called
  disabled          \* the local tracks with enabled = false, as <<stream, kind>>

idVars == <<clock, attempts>>

mediaVars == <<trackEvents, remoteStream, remoteStreamCalls, disabled>>

vars == <<callLog, candidates, localStream, peerConnection, unsubscribe,
          streams, pcs, recSubs, candSubs, tasks, invocations, last, clock,
          attempts, trackEvents, remoteStream, remoteStreamCalls, disabled>>

\* ------------------------------------------------------------- helpers
currentUserId(s) == IF s = "caller" THEN "A" ELSE "B"

otherUserId(s) == IF s = "caller" THEN "B" ELSE "A"

\* The current contents of the document.
callDoc == callLog[Len(callLog)]

\* The store accepts another write of the document (bound of the model).
CanWrite == Len(callLog) <= MaxWrites

\* A suspended invocation: the session it runs on, the method the user or
\* the listener invoked, the awaited operation, the peer connection the
\* awaited operation was called on, and the locals read after the await.
Task(s, op, at, p, d) ==
  [sess |-> s, op |-> op, at |-> at, pc |-> p, data |-> d, status |-> "none"]

\* What the last step did: a user invoking a method, a method returning or
\* throwing to its invoker, an error caught or left unhandled in a callback.
Event(ev, s, op) == [ev |-> ev, sess |-> s, op |-> op]

\* Any other step (a resumed await, a store write, a listener callback).
Step == Event("step", "caller", "none")

Spawn(t) == tasks (+) SetToBag({t})

Finish(t) == tasks (-) SetToBag({t})

Move(t, at) == (tasks (-) SetToBag({t})) (+) SetToBag({[t EXCEPT !.at = at]})

Running == BagToSet(tasks)

\* track.stop() on every track of stream i (i = 0: no stream)
StopTracks(ss, i) == IF i = 0 THEN ss ELSE [ss EXCEPT ![i].live = FALSE]

\* pc.close() on connection p (p = 0: no connection)
ClosePc(cs, p) == IF p = 0 THEN cs ELSE [cs EXCEPT ![p].closed = TRUE, ![p].sig = "closed"]

\* the unsubscribe function returned by onSnapshot (u = 0: none held)
CancelSub(rs, u) == IF u = 0 THEN rs ELSE [rs EXCEPT ![u].active = FALSE]

\* ---------------------------------------------------------------- Init
Init ==
  /\ callLog = <<NoDoc>>
  /\ candidates = <<>>
  /\ localStream = [s \in Session |-> 0]
  /\ peerConnection = [s \in Session |-> 0]
  /\ unsubscribe = [s \in Session |-> 0]
  /\ streams = <<>>
  /\ pcs = <<>>
  /\ recSubs = <<>>
  /\ candSubs = <<>>
  /\ tasks = EmptyBag
  /\ invocations = 0
  /\ last = Event("init", "caller", "none")
  /\ clock = 0
  /\ attempts = <<>>
  /\ trackEvents = {}
  /\ remoteStream = [s \in Session |-> 0]
  /\ remoteStreamCalls = [s \in Session |-> 0]
  /\ disabled = {}

\* --------------------------------------------- initializeLocalStream
\* this.localStream = await navigator.mediaDevices.getUserMedia(...)
initializeLocalStream(s) ==
  /\ streams' = Append(streams, [owner |-> s, live |-> TRUE])
  /\ localStream' = [localStream EXCEPT ![s] = Len(streams) + 1]

\* ---------------------------------------------- createPeerConnection
\* new RTCPeerConnection; the tracks of this.localStream (ls, 0 when it is
\* null) are added to it; this.peerConnection = pc
createPeerConnection(s, ls) ==
  /\ pcs' = Append(pcs, [owner |-> s, sig |-> "stable", closed |-> FALSE,
                         local |-> FALSE, remote |-> 0, applied |-> {},
                         tracks |-> ls])
  /\ peerConnection' = [peerConnection EXCEPT ![s] = Len(pcs) + 1]

\* --------------------------------------------------- listenForAnswer
\* this.unsubscribe = onSnapshot(callRef, ...): the listener first receives
\* the current contents of the document, then every later write.
listenForAnswer(s) ==
  /\ recSubs' = Append(recSubs, [owner |-> s, active |-> TRUE,
                                 seen |-> Len(callLog) - 1])
  /\ unsubscribe' = [unsubscribe EXCEPT ![s] = Len(recSubs) + 1]

\* ----------------------------------------- listenForRemoteCandidates
\* onSnapshot(candidatesRef, ...): the returned unsubscribe function is
\* discarded; the listener receives an 'added' change for every document.
listenForRemoteCandidates(s) ==
  candSubs' = Append(candSubs, [owner |-> s, seen |-> 0])

\* --------------------------------------------------------- startCall
\* user invokes startCall: runs up to `await getUserMedia`
\* (variant: the listeners are installed first, before anything is awaited)
startCallListeningFirst(s) ==
  /\ "startCall" \in Methods(s)
  /\ invocations < MaxInvocations
  /\ invocations' = invocations + 1
  /\ listenForAnswer(s)
  /\ listenForRemoteCandidates(s)
  /\ tasks' = Spawn(Task(s, "startCall", "getUserMedia", 0, 0))
  /\ last' = Event("invoke", s, "startCall")
  /\ UNCHANGED <<callLog, candidates, localStream, peerConnection,
                 streams, pcs>>
  /\ UNCHANGED idVars
  /\ UNCHANGED mediaVars

startCall(s) ==
  /\ "startCall" \in Methods(s)
  /\ invocations < MaxInvocations
  /\ invocations' = invocations + 1
  /\ tasks' = Spawn(Task(s, "startCall", "getUserMedia", 0, 0))
  /\ last' = Event("invoke", s, "startCall")
  /\ UNCHANGED <<callLog, candidates, localStream, peerConnection, unsubscribe,
                 streams, pcs, recSubs, candSubs>>
  /\ UNCHANGED idVars
  /\ UNCHANGED mediaVars

\* getUserMedia resolves: store the stream, create the peer connection,
\* call pc.createOffer()
startCallMedia(t) ==
  /\ t.op = "startCall" /\ t.at = "getUserMedia"
  /\ initializeLocalStream(t.sess)
  /\ createPeerConnection(t.sess, Len(streams) + 1)
  /\ tasks' = (tasks (-) SetToBag({t}))
                (+) SetToBag({Task(t.sess, "startCall", "createOffer", Len(pcs) + 1, 0)})
  /\ last' = Step
  /\ UNCHANGED <<callLog, candidates, unsubscribe, recSubs, candSubs, invocations>>
  /\ UNCHANGED idVars
  /\ UNCHANGED mediaVars

\* variant: the rejection is swallowed and startCall goes on without a stream
startCallMediaIgnored(t) ==
  /\ t.op = "startCall" /\ t.at = "getUserMedia"
  /\ createPeerConnection(t.sess, localStream[t.sess])
  /\ tasks' = (tasks (-) SetToBag({t}))
                (+) SetToBag({Task(t.sess, "startCall", "createOffer", Len(pcs) + 1, 0)})
  /\ last' = Step
  /\ UNCHANGED <<callLog, candidates, localStream, unsubscribe,
                 streams, recSubs, candSubs, invocations>>
  /\ UNCHANGED idVars
  /\ UNCHANGED mediaVars

\* getUserMedia rejects: 'Could not access camera/microphone' is thrown
startCallMediaFail(t) ==
  /\ t.op = "startCall" /\ t.at = "getUserMedia"
  /\ tasks' = Finish(t)
  /\ last' = Event("throwMedia", t.sess, "startCall")
  /\ UNCHANGED <<callLog, candidates, localStream, peerConnection, unsubscribe,
                 streams, pcs, recSubs, candSubs, invocations>>
  /\ UNCHANGED idVars
  /\ UNCHANGED mediaVars

\* createOffer resolves; pc.setLocalDescription(offer) is called
startCallOffer(t) ==
  /\ t.op = "startCall" /\ t.at = "createOffer"
  /\ ~pcs[t.pc].closed
  /\ tasks' = Move(t, "setLocalDescription")
  /\ last' = Step
  /\ UNCHANGED <<callLog, candidates, localStream, peerConnection, unsubscribe,
                 streams, pcs, recSubs, candSubs, invocations>>
  /\ UNCHANGED idVars
  /\ UNCHANGED mediaVars

\* setLocalDescription resolves; setDoc(callRef, {...}) is sent
startCallLocal(t) ==
  /\ t.op = "startCall" /\ t.at = "setLocalDescription"
  /\ ~pcs[t.pc].closed
  /\ pcs' = [pcs EXCEPT ![t.pc].sig = "have-local-offer", ![t.pc].local = TRUE]
  /\ tasks' = Move(t, "setDoc")
  /\ last' = Step
  /\ UNCHANGED <<callLog, candidates, localStream, peerConnection, unsubscribe,
                 streams, recSubs, candSubs, invocations>>
  /\ UNCHANGED idVars
  /\ UNCHANGED mediaVars

\* createOffer or setLocalDescription rejects (always on a closed connection)
startCallPcFail(t) ==
  /\ t.op = "startCall" /\ t.at \in {"createOffer", "setLocalDescription"}
  /\ tasks' = Finish(t)
  /\ last' = Event("throw", t.sess, "startCall")
  /\ UNCHANGED <<callLog, candidates, localStream, peerConnection, unsubscribe,
                 streams, pcs, recSubs, candSubs, invocations>>
  /\ UNCHANGED idVars
  /\ UNCHANGED mediaVars

\* the document written by startCall: setDoc without merge replaces
\* whatever the document held
NewCall(s, p) ==
  [exists |-> TRUE, callerId |-> currentUserId(s), receiverId |-> otherUserId(s),
   status |-> "ringing", offer |-> p, answer |-> 0, endedAt |-> 0]

\* setDoc is applied by the store
startCallSetDoc(t) ==
  /\ t.op = "startCall" /\ t.at = "setDoc"
  /\ CanWrite
  /\ callLog' = Append(callLog, NewCall(t.sess, t.pc))
  /\ tasks' = Move(t, "setDocAck")
  /\ last' = Step
  /\ UNCHANGED <<candidates, localStream, peerConnection, unsubscribe,
                 streams, pcs, recSubs, candSubs, invocations>>
  /\ UNCHANGED idVars
  /\ UNCHANGED mediaVars

\* setDoc rejects (transport error)
startCallSetDocFail(t) ==
  /\ t.op = "startCall" /\ t.at = "setDoc"
  /\ tasks' = Finish(t)
  /\ last' = Event("throw", t.sess, "startCall")
  /\ UNCHANGED <<callLog, candidates, localStream, peerConnection, unsubscribe,
                 streams, pcs, recSubs, candSubs, invocations>>
  /\ UNCHANGED idVars
  /\ UNCHANGED mediaVars

\* setDoc resolves: listenForAnswer(); listenForRemoteCandidates(); return
startCallListen(t) ==
  /\ t.op = "startCall" /\ t.at = "setDocAck"
  /\ listenForAnswer(t.sess)
  /\ listenForRemoteCandidates(t.sess)
  /\ tasks' = Finish(t)
  /\ last' = Event("return", t.sess, "startCall")
  /\ UNCHANGED <<callLog, candidates, localStream, peerConnection,
                 streams, pcs, invocations>>
  /\ UNCHANGED idVars
  /\ UNCHANGED mediaVars

\* ----------------------------------------------------------- endCall
\* the synchronous part of endCall: stop the tracks of this.localStream,
\* close this.peerConnection, call this.unsubscribe, null the three fields
\* (cs, rs: the connections and listeners as the calling step leaves them)
endCallLocal(s, cs, rs) ==
  /\ streams' = StopTracks(streams, localStream[s])
  /\ localStream' = [localStream EXCEPT ![s] = 0]
  /\ pcs' = ClosePc(cs, peerConnection[s])
  /\ peerConnection' = [peerConnection EXCEPT ![s] = 0]
  /\ recSubs' = CancelSub(rs, unsubscribe[s])
  /\ unsubscribe' = [unsubscribe EXCEPT ![s] = 0]

\* the update endCall sends: status and endedAt, whatever the status was
EndedDoc(d, now) == [d EXCEPT !.status = "ended", !.endedAt = now]

\* user invokes endCall: runs up to `await getDoc`
endCall(s) ==
  /\ "endCall" \in Methods(s)
  /\ invocations < MaxInvocations
  /\ invocations' = invocations + 1
  /\ endCallLocal(s, pcs, recSubs)
  /\ tasks' = Spawn(Task(s, "endCall", "getDoc", 0, 0))
  /\ last' = Event("invoke", s, "endCall")
  /\ UNCHANGED <<callLog, candidates, candSubs>>
  /\ UNCHANGED idVars
  /\ UNCHANGED mediaVars

\* getDoc resolves (endCall body of endCall, rejectCall or the listener)
endCallGetDoc(t) ==
  /\ t.at = "getDoc" /\ t.op \in {"endCall", "rejectCall", "listener"}
  /\ IF callDoc.exists
       THEN /\ tasks' = Move(t, "updateDoc")
            /\ last' = Step
       ELSE /\ tasks' = Finish(t)
            /\ last' = Event("endCallReturn", t.sess, t.op)
  /\ UNCHANGED <<callLog, candidates, localStream, peerConnection, unsubscribe,
                 streams, pcs, recSubs, candSubs, invocations>>
  /\ UNCHANGED idVars
  /\ UNCHANGED mediaVars

\* updateDoc(callRef, {status: 'ended', endedAt}) is applied; endCall returns
endCallUpdate(t) ==
  /\ t.at = "updateDoc" /\ t.op \in {"endCall", "rejectCall", "listener"}
  /\ CanWrite
  /\ callDoc.exists
  /\ callLog' = Append(callLog, EndedDoc(callDoc, Len(callLog)))
  /\ tasks' = Finish(t)
  /\ last' = Event("endCallReturn", t.sess, t.op)
  /\ UNCHANGED <<candidates, localStream, peerConnection, unsubscribe,
                 streams, pcs, recSubs, candSubs, invocations>>
  /\ UNCHANGED idVars
  /\ UNCHANGED mediaVars

\* getDoc or updateDoc rejects: caught and logged, endCall returns
endCallFail(t) ==
  /\ t.at \in {"getDoc", "updateDoc"} /\ t.op \in {"endCall", "rejectCall", "listener"}
  /\ tasks' = Finish(t)
  /\ last' = Event("endCallReturn", t.sess, t.op)
  /\ UNCHANGED <<callLog, candidates, localStream, peerConnection, unsubscribe,
                 streams, pcs, recSubs, candSubs, invocations>>
  /\ UNCHANGED idVars
  /\ UNCHANGED mediaVars

\* -------------------------------------------------------- rejectCall
\* the update rejectCall sends
RejectedDoc(d, now) == [d EXCEPT !.status = "rejected", !.endedAt = now]

\* user invokes rejectCall: runs up to `await updateDoc`
rejectCall(s) ==
  /\ "rejectCall" \in Methods(s)
  /\ invocations < MaxInvocations
  /\ invocations' = invocations + 1
  /\ tasks' = Spawn(Task(s, "rejectCall", "rejectUpdate", 0, 0))
  /\ last' = Event("invoke", s, "rejectCall")
  /\ UNCHANGED <<callLog, candidates, localStream, peerConnection, unsubscribe,
                 streams, pcs, recSubs, candSubs>>
  /\ UNCHANGED idVars
  /\ UNCHANGED mediaVars

\* updateDoc(callRef, {status: 'rejected', endedAt}) is applied
rejectCallUpdate(t) ==
  /\ t.op = "rejectCall" /\ t.at = "rejectUpdate"
  /\ CanWrite
  /\ callDoc.exists
  /\ callLog' = Append(callLog, RejectedDoc(callDoc, Len(callLog)))
  /\ tasks' = Move(t, "rejectAck")
  /\ last' = Step
  /\ UNCHANGED <<candidates, localStream, peerConnection, unsubscribe,
                 streams, pcs, recSubs, candSubs, invocations>>
  /\ UNCHANGED idVars
  /\ UNCHANGED mediaVars

\* updateDoc rejects (no such document, or transport error): caught and
\* logged by rejectCall, which returns without reaching endCall
rejectCallFail(t) ==
  /\ t.op = "rejectCall" /\ t.at = "rejectUpdate"
  /\ tasks' = Finish(t)
  /\ last' = Event("caught", t.sess, "rejectCall")
  /\ UNCHANGED <<callLog, candidates, localStream, peerConnection, unsubscribe,
                 streams, pcs, recSubs, candSubs, invocations>>
  /\ UNCHANGED idVars
  /\ UNCHANGED mediaVars

\* updateDoc resolves: await this.endCall()
rejectCallEnd(t) ==
  /\ t.op = "rejectCall" /\ t.at = "rejectAck"
  /\ endCallLocal(t.sess, pcs, recSubs)
  /\ tasks' = Move(t, "getDoc")
  /\ last' = Step
  /\ UNCHANGED <<callLog, candidates, candSubs, invocations>>
  /\ UNCHANGED idVars
  /\ UNCHANGED mediaVars

\* -------------------------------------------------------- answerCall
\* user invokes answerCall: runs up to `await getUserMedia`
answerCall(s) ==
  /\ "answerCall" \in Methods(s)
  /\ invocations < MaxInvocations
  /\ invocations' = invocations + 1
  /\ tasks' = Spawn(Task(s, "answerCall", "getUserMedia", 0, 0))
  /\ last' = Event("invoke", s, "answerCall")
  /\ UNCHANGED <<callLog, candidates, localStream, peerConnection, unsubscribe,
                 streams, pcs, recSubs, candSubs>>
  /\ UNCHANGED idVars
  /\ UNCHANGED mediaVars

\* getUserMedia resolves: store the stream; getDoc(callRef) is sent
answerCallMedia(t) ==
  /\ t.op = "answerCall" /\ t.at = "getUserMedia"
  /\ initializeLocalStream(t.sess)
  /\ tasks' = Move(t, "getDoc")
  /\ last' = Step
  /\ UNCHANGED <<callLog, candidates, peerConnection, unsubscribe,
                 pcs, recSubs, candSubs, invocations>>
  /\ UNCHANGED idVars
  /\ UNCHANGED mediaVars

\* getUserMedia rejects: 'Could not access camera/microphone' is thrown
answerCallMediaFail(t) ==
  /\ t.op = "answerCall" /\ t.at = "getUserMedia"
  /\ tasks' = Finish(t)
  /\ last' = Event("throwMedia", t.sess, "answerCall")
  /\ UNCHANGED <<callLog, candidates, localStream, peerConnection, unsubscribe,
                 streams, pcs, recSubs, candSubs, invocations>>
  /\ UNCHANGED idVars
  /\ UNCHANGED mediaVars

\* getDoc resolves with an existing document: create the peer connection
\* and call pc.setRemoteDescription(callData.offer)
answerCallGetDoc(t) ==
  /\ t.op = "answerCall" /\ t.at = "getDoc"
  /\ callDoc.exists
  /\ createPeerConnection(t.sess, localStream[t.sess])
  /\ tasks' = (tasks (-) SetToBag({t}))
                (+) SetToBag({Task(t.sess, "answerCall", "setRemoteDescription",
                                   Len(pcs) + 1, callDoc.offer)})
  /\ last' = Step
  /\ UNCHANGED <<callLog, candidates, localStream, unsubscribe,
                 streams, recSubs, candSubs, invocations>>
  /\ UNCHANGED idVars
  /\ UNCHANGED mediaVars

\* getDoc resolves with no document ('Call not found'), or rejects
answerCallGetDocFail(t) ==
  /\ t.op = "answerCall" /\ t.at = "getDoc"
  /\ tasks' = Finish(t)
  /\ last' = Event("throw", t.sess, "answerCall")
  /\ UNCHANGED <<callLog, candidates, localStream, peerConnection, unsubscribe,
                 streams, pcs, recSubs, candSubs, invocations>>
  /\ UNCHANGED idVars
  /\ UNCHANGED mediaVars

\* setRemoteDescription(offer) resolves; pc.createAnswer() is called
answerCallRemote(t) ==
  /\ t.op = "answerCall" /\ t.at = "setRemoteDescription"
  /\ ~pcs[t.pc].closed
  /\ pcs' = [pcs EXCEPT ![t.pc].sig = "have-remote-offer", ![t.pc].remote = t.data]
  /\ tasks' = Move(t, "createAnswer")
  /\ last' = Step
  /\ UNCHANGED <<callLog, candidates, localStream, peerConnection, unsubscribe,
                 streams, recSubs, candSubs, invocations>>
  /\ UNCHANGED idVars
  /\ UNCHANGED mediaVars

\* createAnswer resolves; pc.setLocalDescription(answer) is called
answerCallAnswer(t) ==
  /\ t.op = "answerCall" /\ t.at = "createAnswer"
  /\ ~pcs[t.pc].closed
  /\ tasks' = Move(t, "setLocalDescription")
  /\ last' = Step
  /\ UNCHANGED <<callLog, candidates, localStream, peerConnection, unsubscribe,
                 streams, pcs, recSubs, candSubs, invocations>>
  /\ UNCHANGED idVars
  /\ UNCHANGED mediaVars

\* setLocalDescription(answer) resolves; updateDoc(callRef, {answer, status})
\* is sent
answerCallLocal(t) ==
  /\ t.op = "answerCall" /\ t.at = "setLocalDescription"
  /\ ~pcs[t.pc].closed
  /\ pcs' = [pcs EXCEPT ![t.pc].sig = "stable", ![t.pc].local = TRUE]
  /\ tasks' = Move(t, "updateDoc")
  /\ last' = Step
  /\ UNCHANGED <<callLog, candidates, localStream, peerConnection, unsubscribe,
                 streams, recSubs, candSubs, invocations>>
  /\ UNCHANGED idVars
  /\ UNCHANGED mediaVars

\* setRemoteDescription (malformed offer), createAnswer or
\* setLocalDescription rejects (always on a closed connection)
answerCallPcFail(t) ==
  /\ t.op = "answerCall"
  /\ t.at \in {"setRemoteDescription", "createAnswer", "setLocalDescription"}
  /\ tasks' = Finish(t)
  /\ last' = Event("throw", t.sess, "answerCall")
  /\ UNCHANGED <<callLog, candidates, localStream, peerConnection, unsubscribe,
                 streams, pcs, recSubs, candSubs, invocations>>
  /\ UNCHANGED idVars
  /\ UNCHANGED mediaVars

\* the update answerCall sends: answer and status, whatever they were
\* (variant: the update sets the status only)
AnsweredDocStatusOnly(d, p) == [d EXCEPT !.status = "connected"]

AnsweredDoc(d, p) == [d EXCEPT !.answer = p, !.status = "connected"]

\* updateDoc(callRef, {answer, status: 'connected'}) is applied
answerCallUpdate(t) ==
  /\ t.op = "answerCall" /\ t.at = "updateDoc"
  /\ CanWrite
  /\ callDoc.exists
  /\ callLog' = Append(callLog, AnsweredDoc(callDoc, t.pc))
  /\ tasks' = Move(t, "updateDocAck")
  /\ last' = Step
  /\ UNCHANGED <<candidates, localStream, peerConnection, unsubscribe,
                 streams, pcs, recSubs, candSubs, invocations>>
  /\ UNCHANGED idVars
  /\ UNCHANGED mediaVars

\* updateDoc rejects (transport error)
answerCallUpdateFail(t) ==
  /\ t.op = "answerCall" /\ t.at = "updateDoc"
  /\ tasks' = Finish(t)
  /\ last' = Event("throw", t.sess, "answerCall")
  /\ UNCHANGED <<callLog, candidates, localStream, peerConnection, unsubscribe,
                 streams, pcs, recSubs, candSubs, invocations>>
  /\ UNCHANGED idVars
  /\ UNCHANGED mediaVars

\* updateDoc resolves: listenForRemoteCandidates(); return
answerCallListen(t) ==
  /\ t.op = "answerCall" /\ t.at = "updateDocAck"
  /\ listenForRemoteCandidates(t.sess)
  /\ tasks' = Finish(t)
  /\ last' = Event("return", t.sess, "answerCall")
  /\ UNCHANGED <<callLog, candidates, localStream, peerConnection, unsubscribe,
                 streams, pcs, recSubs, invocations>>
  /\ UNCHANGED idVars
  /\ UNCHANGED mediaVars

\* ------------------------------------------- listenForAnswer callback
\* the snapshot listener i receives next
NextSnapshot(i) == callLog[recSubs[i].seen + 1]

Delivered(i) == [recSubs EXCEPT ![i].seen = recSubs[i].seen + 1]

\* (the guard with the signaling state test inverted)
WillApplyAnswerInverted(s, d) ==
  /\ d.exists
  /\ d.answer # 0
  /\ peerConnection[s] # 0
  /\ pcs[peerConnection[s]].sig # "have-local-offer"

\* data?.answer && this.peerConnection && signalingState === 'have-local-offer'
WillApplyAnswer(s, d) ==
  /\ d.exists
  /\ d.answer # 0
  /\ peerConnection[s] # 0
  /\ pcs[peerConnection[s]].sig = "have-local-offer"

\* data?.status === 'ended' || data?.status === 'rejected'
SeesCallOver(d) == d.exists /\ d.status \in {"ended", "rejected"}

\* a snapshot carrying an answer arrives while the connection awaits one:
\* setRemoteDescription(answer) is called and awaited
listenerAnswer(i) ==
  /\ recSubs[i].active /\ recSubs[i].seen < Len(callLog)
  /\ LET s == recSubs[i].owner
         d == NextSnapshot(i)
     IN /\ WillApplyAnswer(s, d)
        /\ recSubs' = Delivered(i)
        /\ tasks' = Spawn([sess |-> s, op |-> "listener", at |-> "setRemoteDescription",
                           pc |-> peerConnection[s], data |-> d.answer,
                           status |-> d.status])
        /\ last' = Step
  /\ UNCHANGED <<callLog, candidates, localStream, peerConnection, unsubscribe,
                 streams, pcs, candSubs, invocations>>
  /\ UNCHANGED idVars
  /\ UNCHANGED mediaVars

\* a snapshot with status ended or rejected arrives (and no answer is to be
\* applied): this.endCall() is called and not awaited
listenerEnd(i) ==
  /\ recSubs[i].active /\ recSubs[i].seen < Len(callLog)
  /\ LET s == recSubs[i].owner
         d == NextSnapshot(i)
     IN /\ ~WillApplyAnswer(s, d)
        /\ SeesCallOver(d)
        /\ endCallLocal(s, pcs, Delivered(i))
        /\ tasks' = Spawn(Task(s, "listener", "getDoc", 0, 0))
        /\ last' = Step
  /\ UNCHANGED <<callLog, candidates, candSubs, invocations>>
  /\ UNCHANGED idVars
  /\ UNCHANGED mediaVars

\* any other snapshot: the callback does nothing
listenerIdle(i) ==
  /\ recSubs[i].active /\ recSubs[i].seen < Len(callLog)
  /\ LET s == recSubs[i].owner
         d == NextSnapshot(i)
     IN /\ ~WillApplyAnswer(s, d)
        /\ ~SeesCallOver(d)
        /\ recSubs' = Delivered(i)
        /\ last' = Step
  /\ UNCHANGED <<callLog, candidates, localStream, peerConnection, unsubscribe,
                 streams, pcs, candSubs, tasks, invocations>>
  /\ UNCHANGED idVars
  /\ UNCHANGED mediaVars

\* setRemoteDescription(answer) resolves; the status of the snapshot is
\* neither ended nor rejected
listenerRemote(t) ==
  /\ t.op = "listener" /\ t.at = "setRemoteDescription"
  /\ pcs[t.pc].sig = "have-local-offer"
  /\ t.status \notin {"ended", "rejected"}
  /\ pcs' = [pcs EXCEPT ![t.pc].sig = "stable", ![t.pc].remote = t.data]
  /\ tasks' = Finish(t)
  /\ last' = Step
  /\ UNCHANGED <<callLog, candidates, localStream, peerConnection, unsubscribe,
                 streams, recSubs, candSubs, invocations>>
  /\ UNCHANGED idVars
  /\ UNCHANGED mediaVars

\* setRemoteDescription(answer) resolves; the status of the snapshot is
\* ended or rejected: this.endCall()
listenerRemoteEnd(t) ==
  /\ t.op = "listener" /\ t.at = "setRemoteDescription"
  /\ pcs[t.pc].sig = "have-local-offer"
  /\ t.status \in {"ended", "rejected"}
  /\ endCallLocal(t.sess,
                  [pcs EXCEPT ![t.pc].sig = "stable", ![t.pc].remote = t.data],
                  recSubs)
  /\ tasks' = (tasks (-) SetToBag({t})) (+) SetToBag({Task(t.sess, "listener", "getDoc", 0, 0)})
  /\ last' = Step
  /\ UNCHANGED <<callLog, candidates, candSubs, invocations>>
  /\ UNCHANGED idVars
  /\ UNCHANGED mediaVars

\* setRemoteDescription(answer) rejects: the connection is closed or no
\* longer awaits an answer; the callback's promise rejects, unhandled
listenerRemoteFail(t) ==
  /\ t.op = "listener" /\ t.at = "setRemoteDescription"
  /\ pcs[t.pc].sig # "have-local-offer"
  /\ tasks' = Finish(t)
  /\ last' = Event("unhandled", t.sess, "listener")
  /\ UNCHANGED <<callLog, candidates, localStream, peerConnection, unsubscribe,
                 streams, pcs, recSubs, candSubs, invocations>>
  /\ UNCHANGED idVars
  /\ UNCHANGED mediaVars

\* ------------------------------------------------- pc.onicecandidate
\* connection p has gathered a local candidate: addDoc to the candidates
\* sub-collection, whether or not the call document exists
\* candidate documents that RTCIceCandidate and addIceCandidate accept
WellFormed == {k \in DOMAIN candidates : candidates[k].ok}

\* candidate documents the RTCIceCandidate constructor throws on
Malformed == {k \in DOMAIN candidates : ~candidates[k].ok}

onicecandidate(p) ==
  /\ pcs[p].local /\ ~pcs[p].closed
  /\ Cardinality(WellFormed) < MaxCandidates
  /\ candidates' = Append(candidates, [from |-> currentUserId(pcs[p].owner), pc |-> p,
                                       ok |-> TRUE])
  /\ last' = Step
  /\ UNCHANGED <<callLog, localStream, peerConnection, unsubscribe,
                 streams, pcs, recSubs, candSubs, tasks, invocations>>
  /\ UNCHANGED idVars
  /\ UNCHANGED mediaVars

\* a document arrives in the candidates collection, signed by user u, whose
\* candidate field is not an RTCIceCandidateInit (it was not produced by
\* event.candidate.toJSON())
malformedCandidate(u) ==
  /\ Cardinality(Malformed) < MaxMalformed
  /\ candidates' = Append(candidates, [from |-> u, pc |-> 0, ok |-> FALSE])
  /\ last' = Step
  /\ UNCHANGED <<callLog, localStream, peerConnection, unsubscribe,
                 streams, pcs, recSubs, candSubs, tasks, invocations>>
  /\ UNCHANGED idVars
  /\ UNCHANGED mediaVars

\* -------------------------------- listenForRemoteCandidates callback
\* a setRemoteDescription is queued on connection p and has not completed
RemotePending(p) == \E t \in Running : t.at = "setRemoteDescription" /\ t.pc = p

NextCandidate(i) == candidates[candSubs[i].seen + 1]

CandDelivered(i) == [candSubs EXCEPT ![i].seen = candSubs[i].seen + 1]

\* data.from !== this.currentUserId && this.peerConnection
WillAddCandidate(s, c) == c.from # currentUserId(s) /\ peerConnection[s] # 0

\* the candidate is the session's own, or the session holds no connection
candidateSkip(i) ==
  /\ candSubs[i].seen < Len(candidates)
  /\ ~WillAddCandidate(candSubs[i].owner, NextCandidate(i))
  /\ candSubs' = CandDelivered(i)
  /\ last' = Step
  /\ UNCHANGED <<callLog, candidates, localStream, peerConnection, unsubscribe,
                 streams, pcs, recSubs, tasks, invocations>>
  /\ UNCHANGED idVars
  /\ UNCHANGED mediaVars

\* addIceCandidate on a connection that has its remote description
candidateAdd(i) ==
  /\ candSubs[i].seen < Len(candidates)
  /\ LET s == candSubs[i].owner
         p == peerConnection[s]
     IN /\ WillAddCandidate(s, NextCandidate(i))
        /\ NextCandidate(i).ok
        /\ pcs[p].remote # 0 /\ ~RemotePending(p)
        /\ pcs' = [pcs EXCEPT ![p].applied = @ \cup {candSubs[i].seen + 1}]
        /\ last' = Step
  /\ candSubs' = CandDelivered(i)
  /\ UNCHANGED <<callLog, candidates, localStream, peerConnection, unsubscribe,
                 streams, recSubs, tasks, invocations>>
  /\ UNCHANGED idVars
  /\ UNCHANGED mediaVars

\* variant: the failure is not contained, the handler closes the connection
candidateErrorClosing(i) ==
  /\ candSubs[i].seen < Len(candidates)
  /\ LET s == candSubs[i].owner
         p == peerConnection[s]
     IN /\ WillAddCandidate(s, NextCandidate(i))
        /\ \/ ~NextCandidate(i).ok
           \/ pcs[p].remote = 0 /\ ~RemotePending(p)
        /\ pcs' = ClosePc(pcs, p)
        /\ last' = Event("caught", s, "candidate")
  /\ candSubs' = CandDelivered(i)
  /\ UNCHANGED <<callLog, candidates, localStream, peerConnection, unsubscribe,
                 streams, recSubs, tasks, invocations>>
  /\ UNCHANGED idVars
  /\ UNCHANGED mediaVars

\* new RTCIceCandidate throws (malformed document) or addIceCandidate
\* rejects (no remote description): caught and logged
candidateError(i) ==
  /\ candSubs[i].seen < Len(candidates)
  /\ LET s == candSubs[i].owner
         p == peerConnection[s]
     IN /\ WillAddCandidate(s, NextCandidate(i))
        /\ \/ ~NextCandidate(i).ok
           \/ pcs[p].remote = 0 /\ ~RemotePending(p)
        /\ last' = Event("caught", s, "candidate")
  /\ candSubs' = CandDelivered(i)
  /\ UNCHANGED <<callLog, candidates, localStream, peerConnection, unsubscribe,
                 streams, pcs, recSubs, tasks, invocations>>
  /\ UNCHANGED idVars
  /\ UNCHANGED mediaVars

\* addIceCandidate is queued behind a pending setRemoteDescription
candidateQueue(i) ==
  /\ candSubs[i].seen < Len(candidates)
  /\ LET s == candSubs[i].owner
         p == peerConnection[s]
     IN /\ WillAddCandidate(s, NextCandidate(i))
        /\ NextCandidate(i).ok
        /\ RemotePending(p)
        /\ tasks' = Spawn(Task(s, "candidate", "addIceCandidate", p, candSubs[i].seen + 1))
        /\ last' = Step
  /\ candSubs' = CandDelivered(i)
  /\ UNCHANGED <<callLog, candidates, localStream, peerConnection, unsubscribe,
                 streams, pcs, recSubs, invocations>>
  /\ UNCHANGED idVars
  /\ UNCHANGED mediaVars

\* the queued addIceCandidate runs: applied if the connection is open and
\* has a remote description, otherwise the rejection is caught and logged
candidateQueued(t) ==
  /\ t.op = "candidate" /\ t.at = "addIceCandidate"
  /\ ~RemotePending(t.pc)
  /\ IF pcs[t.pc].remote # 0 /\ ~pcs[t.pc].closed
       THEN /\ pcs' = [pcs EXCEPT ![t.pc].applied = @ \cup {t.data}]
            /\ last' = Step
       ELSE /\ pcs' = pcs
            /\ last' = Event("caught", t.sess, "candidate")
  /\ tasks' = Finish(t)
  /\ UNCHANGED <<callLog, candidates, localStream, peerConnection, unsubscribe,
                 streams, recSubs, candSubs, invocations>>
  /\ UNCHANGED idVars
  /\ UNCHANGED mediaVars

Next ==
  \/ \E s \in Session : startCall(s)
  \/ \E t \in Running : startCallMedia(t)
  \/ \E t \in Running : startCallMediaFail(t)
  \/ \E t \in Running : startCallOffer(t)
  \/ \E t \in Running : startCallLocal(t)
  \/ \E t \in Running : startCallPcFail(t)
  \/ \E t \in Running : startCallSetDoc(t)
  \/ \E t \in Running : startCallSetDocFail(t)
  \/ \E t \in Running : startCallListen(t)
  \/ \E s \in Session : endCall(s)
  \/ \E t \in Running : endCallGetDoc(t)
  \/ \E t \in Running : endCallUpdate(t)
  \/ \E t \in Running : endCallFail(t)
  \/ \E s \in Session : rejectCall(s)
  \/ \E t \in Running : rejectCallUpdate(t)
  \/ \E t \in Running : rejectCallFail(t)
  \/ \E t \in Running : rejectCallEnd(t)
  \/ \E s \in Session : answerCall(s)
  \/ \E t \in Running : answerCallMedia(t)
  \/ \E t \in Running : answerCallMediaFail(t)
  \/ \E t \in Running : answerCallGetDoc(t)
  \/ \E t \in Running : answerCallGetDocFail(t)
  \/ \E t \in Running : answerCallRemote(t)
  \/ \E t \in Running : answerCallAnswer(t)
  \/ \E t \in Running : answerCallLocal(t)
  \/ \E t \in Running : answerCallPcFail(t)
  \/ \E t \in Running : answerCallUpdate(t)
  \/ \E t \in Running : answerCallUpdateFail(t)
  \/ \E t \in Running : answerCallListen(t)
  \/ \E i \in DOMAIN recSubs : listenerAnswer(i)
  \/ \E i \in DOMAIN recSubs : listenerEnd(i)
  \/ \E i \in DOMAIN recSubs : listenerIdle(i)
  \/ \E t \in Running : listenerRemote(t)
  \/ \E t \in Running : listenerRemoteEnd(t)
  \/ \E t \in Running : listenerRemoteFail(t)
  \/ \E p \in DOMAIN pcs : onicecandidate(p)
  \/ \E i \in DOMAIN candSubs : candidateSkip(i)
  \/ \E i \in DOMAIN candSubs : candidateAdd(i)
  \/ \E i \in DOMAIN candSubs : candidateError(i)
  \/ \E i \in DOMAIN candSubs : candidateQueue(i)
  \/ \E t \in Running : candidateQueued(t)

Spec == Init /\ [][Next]_vars

\* ------------------------------------------------- answered-call scenario
\* Scenario: the caller places one call and the receiver, once the call
\* document exists, may answer it once; no operation fails, nobody hangs up.
ScenarioStart == invocations = 0 /\ startCall("caller")

ScenarioAnswer == invocations = 1 /\ callDoc.exists /\ answerCall("receiver")

\* Every promise settles and every delivered snapshot is dispatched: the
\* event loop eventually runs each continuation that stays ready.
LiveNext ==
  \/ ScenarioStart
  \/ ScenarioAnswer
  \/ \E t \in Running : startCallMedia(t)
  \/ \E t \in Running : startCallOffer(t)
  \/ \E t \in Running : startCallLocal(t)
  \/ \E t \in Running : startCallSetDoc(t)
  \/ \E t \in Running : startCallListen(t)
  \/ \E t \in Running : answerCallMedia(t)
  \/ \E t \in Running : answerCallGetDoc(t)
  \/ \E t \in Running : answerCallRemote(t)
  \/ \E t \in Running : answerCallAnswer(t)
  \/ \E t \in Running : answerCallLocal(t)
  \/ \E t \in Running : answerCallUpdate(t)
  \/ \E t \in Running : answerCallListen(t)
  \/ \E i \in DOMAIN recSubs : listenerAnswer(i)
  \/ \E i \in DOMAIN recSubs : listenerIdle(i)
  \/ \E t \in Running : listenerRemote(t)
  \/ \E p \in DOMAIN pcs : onicecandidate(p)
  \/ \E i \in DOMAIN candSubs : candidateSkip(i)
  \/ \E i \in DOMAIN candSubs : candidateAdd(i)
  \/ \E i \in DOMAIN candSubs : candidateError(i)
  \/ \E i \in DOMAIN candSubs : candidateQueue(i)
  \/ \E t \in Running : candidateQueued(t)

LiveFairness ==
  /\ WF_vars(\E t \in Running : startCallMedia(t))
  /\ WF_vars(\E t \in Running : startCallOffer(t))
  /\ WF_vars(\E t \in Running : startCallLocal(t))
  /\ WF_vars(\E t \in Running : startCallSetDoc(t))
  /\ WF_vars(\E t \in Running : startCallListen(t))
  /\ WF_vars(\E t \in Running : answerCallMedia(t))
  /\ WF_vars(\E t \in Running : answerCallGetDoc(t))
  /\ WF_vars(\E t \in Running : answerCallRemote(t))
  /\ WF_vars(\E t \in Running : answerCallAnswer(t))
  /\ WF_vars(\E t \in Running : answerCallLocal(t))
  /\ WF_vars(\E t \in Running : answerCallUpdate(t))
  /\ WF_vars(\E t \in Running : answerCallListen(t))
  /\ WF_vars(\E i \in DOMAIN recSubs : listenerAnswer(i))
  /\ WF_vars(\E i \in DOMAIN recSubs : listenerIdle(i))
  /\ WF_vars(\E t \in Running : listenerRemote(t))
  /\ WF_vars(\E i \in DOMAIN candSubs : candidateSkip(i))
  /\ WF_vars(\E i \in DOMAIN candSubs : candidateAdd(i))
  /\ WF_vars(\E i \in DOMAIN candSubs : candidateError(i))
  /\ WF_vars(\E i \in DOMAIN candSubs : candidateQueue(i))
  /\ WF_vars(\E t \in Running : candidateQueued(t))

LiveSpec == Init /\ [][LiveNext]_vars /\ LiveFairness

\* ------------------------------------------ malformed-candidate scenario
\* Scenario: the answered call above, during which a malformed document may
\* arrive in the candidates collection under either user's id.
CandNext ==
  \/ LiveNext
  \/ \E u \in {currentUserId(s) : s \in Session} : malformedCandidate(u)

CandSpec == Init /\ [][CandNext]_vars /\ LiveFairness

\* ---------------------------------------------- media-failure scenario
\* Scenario: the answered call above, in which getUserMedia may reject for
\* the caller's startCall and for the receiver's answerCall.
MediaNext ==
  \/ LiveNext
  \/ \E t \in Running : startCallMediaFail(t)
  \/ \E t \in Running : answerCallMediaFail(t)

MediaSpec == Init /\ [][MediaNext]_vars

\* ------------------------------------------------------- generateCallId
\* user ids, listed in the order Array.prototype.sort puts them (UTF-16
\* code units)
UserIds == <<"a", "a_b", "b", "b_c", "c">>

Rank(u) == CHOOSE i \in DOMAIN UserIds : UserIds[i] = u

\* [userId1, userId2].sort()
Sorted(userId1, userId2) ==
  IF Rank(userId2) < Rank(userId1) THEN <<userId2, userId1>>
                                   ELSE <<userId1, userId2>>

\* `call_${sorted[0]}_${sorted[1]}_${Date.now()}`
generateCallId(userId1, userId2) ==
  "call_" \o Sorted(userId1, userId2)[1] \o "_" \o Sorted(userId1, userId2)[2]
          \o "_" \o ToString(clock)

\* a millisecond passes
tick ==
  /\ clock < MaxClock
  /\ clock' = clock + 1
  /\ UNCHANGED <<callLog, candidates, localStream, peerConnection, unsubscribe,
                 streams, pcs, recSubs, candSubs, tasks, invocations, last,
                 attempts>>
  /\ UNCHANGED mediaVars

\* user `from` places a call to user `to`: the attempt obtains its id
placeCall(from, to) ==
  /\ from # to
  /\ Len(attempts) < MaxAttempts
  /\ attempts' = Append(attempts, [from |-> from, to |-> to, at |-> clock,
                                   id |-> generateCallId(from, to)])
  /\ UNCHANGED <<callLog, candidates, localStream, peerConnection, unsubscribe,
                 streams, pcs, recSubs, candSubs, tasks, invocations, last,
                 clock>>
  /\ UNCHANGED mediaVars

Users == {UserIds[i] : i \in DOMAIN UserIds}

IdNext ==
  \/ tick
  \/ \E from \in Users : \E to \in Users : placeCall(from, to)

IdSpec == Init /\ [][IdNext]_vars

\* ---------------------------------------------------------- call history
\* call.duration (undefined, here 0, when the document has no such field)
Duration(call) == IF "duration" \in DOMAIN call THEN call.duration ELSE 0

\* secs.toString().padStart(2, '0')
PadStart2(n) == IF n < 10 THEN "0" \o ToString(n) ELSE ToString(n)

\* the status text the call history of user uid shows for a call document
getCallStatusText(call, uid) ==
  LET isIncoming == call.receiverId = uid
  IN IF call.status = "missed"
       THEN (IF isIncoming THEN "Missed call" ELSE "Cancelled")
     ELSE IF call.status = "rejected"
       THEN (IF isIncoming THEN "Declined" ELSE "Call declined")
     ELSE IF call.status = "ended" /\ Duration(call) # 0
       THEN ToString(Duration(call) \div 60) \o ":" \o PadStart2(Duration(call) % 60)
     ELSE (IF isIncoming THEN "Incoming" ELSE "Outgoing")

\* ------------------------------------------------------ media callbacks
\* the callType given to the constructor of both sessions
callType == "video"

\* the tracks getUserMedia returns for the constraints of this callType
TrackKinds == IF callType = "video" THEN {"audio", "video"} ELSE {"audio"}

\* the track events connection p has delivered so far
TracksFired(p) == Cardinality({e \in trackEvents : e[1] = p})

\* pc.ontrack: the remote description of p offers the tracks of the remote
\* session's stream, one track event each; the handler stores
\* event.streams[0] and calls onRemoteStream with it
ontrack(p) ==
  /\ ~pcs[p].closed
  /\ pcs[p].remote # 0
  /\ pcs[pcs[p].remote].tracks # 0
  /\ TracksFired(p) < Cardinality(TrackKinds)
  /\ trackEvents' = trackEvents \cup {<<p, TracksFired(p) + 1>>}
  /\ remoteStream' = [remoteStream EXCEPT ![pcs[p].owner] = pcs[pcs[p].remote].tracks]
  /\ remoteStreamCalls' = [remoteStreamCalls EXCEPT ![pcs[p].owner] = @ + 1]
  /\ last' = Step
  /\ UNCHANGED <<callLog, candidates, localStream, peerConnection, unsubscribe,
                 streams, pcs, recSubs, candSubs, tasks, invocations, disabled>>
  /\ UNCHANGED idVars

\* track.enabled = enabled on the tracks of the given kind of stream ls
\* (ls = 0: this.localStream is null, nothing is done)
SetEnabled(ls, kind, enabled) ==
  IF ls = 0 \/ kind \notin TrackKinds THEN disabled
  ELSE IF enabled THEN disabled \ {<<ls, kind>>}
  ELSE disabled \cup {<<ls, kind>>}

\* (variant: muting stops the tracks of the stream instead)
toggleAudioStopping(s, enabled) ==
  /\ streams' = StopTracks(streams, localStream[s])
  /\ last' = Event("return", s, "toggleAudio")
  /\ UNCHANGED <<callLog, candidates, localStream, peerConnection, unsubscribe,
                 pcs, recSubs, candSubs, tasks, invocations,
                 trackEvents, remoteStream, remoteStreamCalls, disabled>>
  /\ UNCHANGED idVars

toggleAudio(s, enabled) ==
  /\ disabled' = SetEnabled(localStream[s], "audio", enabled)
  /\ last' = Event("return", s, "toggleAudio")
  /\ UNCHANGED <<callLog, candidates, localStream, peerConnection, unsubscribe,
                 streams, pcs, recSubs, candSubs, tasks, invocations,
                 trackEvents, remoteStream, remoteStreamCalls>>
  /\ UNCHANGED idVars

toggleVideo(s, enabled) ==
  /\ disabled' = SetEnabled(localStream[s], "video", enabled)
  /\ last' = Event("return", s, "toggleVideo")
  /\ UNCHANGED <<callLog, candidates, localStream, peerConnection, unsubscribe,
                 streams, pcs, recSubs, candSubs, tasks, invocations,
                 trackEvents, remoteStream, remoteStreamCalls>>
  /\ UNCHANGED idVars

\* Scenario: the answered call, with the track events of both connections.
TrackNext ==
  \/ LiveNext
  \/ \E p \in DOMAIN pcs : ontrack(p)

TrackSpec == Init /\ [][TrackNext]_vars

\* Scenario: the signalling of the answered call (ICE candidates left aside),
\* in which either user may hang up once the receiver has started to answer,
\* and either user may press the microphone and camera buttons at any time.
ScenarioEnd(s) == invocations = 2 /\ endCall(s)

ToggleNext ==
  \/ ScenarioStart
  \/ ScenarioAnswer
  \/ \E t \in Running : startCallMedia(t)
  \/ \E t \in Running : startCallOffer(t)
  \/ \E t \in Running : startCallLocal(t)
  \/ \E t \in Running : startCallSetDoc(t)
  \/ \E t \in Running : startCallListen(t)
  \/ \E t \in Running : answerCallMedia(t)
  \/ \E t \in Running : answerCallGetDoc(t)
  \/ \E t \in Running : answerCallRemote(t)
  \/ \E t \in Running : answerCallAnswer(t)
  \/ \E t \in Running : answerCallLocal(t)
  \/ \E t \in Running : answerCallUpdate(t)
  \/ \E t \in Running : answerCallListen(t)
  \/ \E i \in DOMAIN recSubs : listenerAnswer(i)
  \/ \E i \in DOMAIN recSubs : listenerIdle(i)
  \/ \E t \in Running : listenerRemote(t)
  \/ \E s \in Session : ScenarioEnd(s)
  \/ \E t \in Running : endCallGetDoc(t)
  \/ \E t \in Running : endCallUpdate(t)
  \/ \E i \in DOMAIN recSubs : listenerEnd(i)
  \/ \E t \in Running : listenerRemoteEnd(t)
  \/ \E t \in Running : listenerRemoteFail(t)
  \/ \E s \in Session : \E enabled \in BOOLEAN : toggleAudio(s, enabled)
  \/ \E s \in Session : \E enabled \in BOOLEAN : toggleVideo(s, enabled)

ToggleSpec == Init /\ [][ToggleNext]_vars

\* ------------------------------------------------------ caller scenario
\* Scenario: the caller's session alone; the user may invoke startCall and
\* endCall at any time, also while an earlier invocation is suspended, and
\* every await may fail. The receiver does nothing.
CallerNext ==
  \/ startCall("caller")
  \/ \E t \in Running : startCallMedia(t)
  \/ \E t \in Running : startCallMediaFail(t)
  \/ \E t \in Running : startCallOffer(t)
  \/ \E t \in Running : startCallLocal(t)
  \/ \E t \in Running : startCallPcFail(t)
  \/ \E t \in Running : startCallSetDoc(t)
  \/ \E t \in Running : startCallSetDocFail(t)
  \/ \E t \in Running : startCallListen(t)
  \/ endCall("caller")
  \/ \E t \in Running : endCallGetDoc(t)
  \/ \E t \in Running : endCallUpdate(t)
  \/ \E t \in Running : endCallFail(t)
  \/ \E i \in DOMAIN recSubs : listenerEnd(i)
  \/ \E i \in DOMAIN recSubs : listenerIdle(i)

CallerSpec == Init /\ [][CallerNext]_vars

\* ------------------------------------------ hang-up during startCall
\* Scenario: the caller places one call and invokes endCall while startCall
\* is suspended at one of its awaits; every await may fail.
ScenarioHangup ==
  /\ \E t \in Running : t.op = "startCall"
  /\ endCall("caller")

OverlapNext ==
  \/ ScenarioStart
  \/ ScenarioHangup
  \/ \E t \in Running : startCallMedia(t)
  \/ \E t \in Running : startCallMediaFail(t)
  \/ \E t \in Running : startCallOffer(t)
  \/ \E t \in Running : startCallLocal(t)
  \/ \E t \in Running : startCallPcFail(t)
  \/ \E t \in Running : startCallSetDoc(t)
  \/ \E t \in Running : startCallSetDocFail(t)
  \/ \E t \in Running : startCallListen(t)
  \/ \E t \in Running : endCallGetDoc(t)
  \/ \E t \in Running : endCallUpdate(t)
  \/ \E t \in Running : endCallFail(t)
  \/ \E i \in DOMAIN recSubs : listenerEnd(i)
  \/ \E i \in DOMAIN recSubs : listenerIdle(i)

OverlapSpec == Init /\ [][OverlapNext]_vars

\* ------------------------------------------------- call document writes
\* Scenario: both users invoke their methods in any order and overlapping;
\* no await fails, ICE candidates are left aside.
RecordNext ==
  \/ \E s \in Session : startCall(s)
  \/ \E t \in Running : startCallMedia(t)
  \/ \E t \in Running : startCallOffer(t)
  \/ \E t \in Running : startCallLocal(t)
  \/ \E t \in Running : startCallSetDoc(t)
  \/ \E t \in Running : startCallListen(t)
  \/ \E s \in Session : endCall(s)
  \/ \E t \in Running : endCallGetDoc(t)
  \/ \E t \in Running : endCallUpdate(t)
  \/ \E s \in Session : rejectCall(s)
  \/ \E t \in Running : rejectCallUpdate(t)
  \/ \E t \in Running : rejectCallEnd(t)
  \/ \E s \in Session : answerCall(s)
  \/ \E t \in Running : answerCallMedia(t)
  \/ \E t \in Running : answerCallGetDoc(t)
  \/ \E t \in Running : answerCallRemote(t)
  \/ \E t \in Running : answerCallAnswer(t)
  \/ \E t \in Running : answerCallLocal(t)
  \/ \E t \in Running : answerCallUpdate(t)
  \/ \E t \in Running : answerCallListen(t)
  \/ \E i \in DOMAIN recSubs : listenerAnswer(i)
  \/ \E i \in DOMAIN recSubs : listenerEnd(i)
  \/ \E i \in DOMAIN recSubs : listenerIdle(i)
  \/ \E t \in Running : listenerRemote(t)
  \/ \E t \in Running : listenerRemoteEnd(t)

RecordSpec == Init /\ [][RecordNext]_vars

\* ------------------------------------------------------------ properties
Status == IF callDoc.exists THEN callDoc.status ELSE "none"

\* some stream session s acquired still has live tracks
LiveTracks(s) == \E i \in DOMAIN streams : streams[i].owner = s /\ streams[i].live

\* some peer connection session s created is not closed
OpenPc(s) == \E p \in DOMAIN pcs : pcs[p].owner = s /\ ~pcs[p].closed

\* some listener session s installed is still subscribed
ActiveRecSub(s) == \E i \in DOMAIN recSubs : recSubs[i].owner = s /\ recSubs[i].active

ActiveCandSub(s) == \E i \in DOMAIN candSubs : candSubs[i].owner = s

\* the local state of session s: its fields and the objects it created
Local(s) ==
  <<localStream[s], peerConnection[s], unsubscribe[s],
    [i \in {j \in DOMAIN streams : streams[j].owner = s} |-> streams[i]],
    [p \in {q \in DOMAIN pcs : pcs[q].owner = s} |-> pcs[p]],
    [i \in {j \in DOMAIN recSubs : recSubs[j].owner = s} |-> recSubs[i].active]>>

\* C1: once the status is ended, rejected or missed, no step changes it to
\* ringing or connected.
C1_TerminalIsFinal ==
  [][(Status \in Terminal) => (Status' \notin {"ringing", "connected"})]_vars

\* C2: the first terminal-status write wins: a step that leaves an already
\* terminal status terminal leaves it the same status (rejected is never
\* replaced by ended).
C2_FirstTerminalWins ==
  [][(Status \in Terminal /\ Status' \in Terminal) => (Status' = Status)]_vars

\* number of writes that set or changed endedAt
EndedAtWrites ==
  Cardinality({i \in 2..Len(callLog) :
                 /\ callLog[i].endedAt # 0
                 /\ (~callLog[i-1].exists \/ callLog[i-1].endedAt # callLog[i].endedAt)})

\* C3: endedAt is set if and only if the status is ended, rejected or
\* missed, and endedAt is written at most once.
C3_EndedAtOnce ==
  /\ callDoc.exists => (callDoc.endedAt # 0 <=> callDoc.status \in Terminal)
  /\ EndedAtWrites <= 1

\* C4: a startCall whose call document already exists does not write it: the
\* document, offer and status included, stays as it was.
C4_OfferWrittenOnce ==
  [][callDoc.exists => (\A t \in Running : startCallSetDoc(t) => (callDoc' = callDoc))]_vars

\* C5: once answer is set, no answerCall write changes the answer field.
C5_AnswerWrittenOnce ==
  [][(callDoc.exists /\ callDoc.answer # 0) =>
       (\A t \in Running : answerCallUpdate(t) => (callDoc'.answer = callDoc.answer))]_vars

\* C6: once endCall's teardown has run (it runs synchronously when endCall
\* is invoked), the session has no live local track and no open peer
\* connection; an endCall invoked after an endCall returned leaves the local
\* session state unchanged; endCall never throws.
C6_EndCallIdempotent ==
  [][\A s \in Session :
       /\ (last'.ev = "invoke" /\ last'.op = "endCall" /\ last'.sess = s)
            => (~LiveTracks(s) /\ ~OpenPc(s))'
       /\ (last.ev = "endCallReturn" /\ last.sess = s /\ last'.ev = "invoke"
             /\ last'.op = "endCall" /\ last'.sess = s)
            => (Local(s)' = Local(s))
       /\ ~(last'.ev \in {"throw", "throwMedia"} /\ last'.op = "endCall")
    ]_vars

\* C7: when startCall or answerCall throws after local media was acquired,
\* the session has no live track, no open peer connection and no active
\* subscription.
C7_FailureReleases ==
  last.ev = "throw" =>
    /\ ~LiveTracks(last.sess)
    /\ ~OpenPc(last.sess)
    /\ ~ActiveRecSub(last.sess)
    /\ ~ActiveCandSub(last.sess)

\* C8: when endCall has completed on a session, neither a call-document
\* listener nor a candidates listener of that session is still subscribed.
C8_EndCallUnsubscribes ==
  last.ev = "endCallReturn" =>
    (~ActiveRecSub(last.sess) /\ ~ActiveCandSub(last.sess))

\* the receiver has invoked answerCall
ReceiverAnswered ==
  \/ \E t \in Running : t.op = "answerCall"
  \/ \E i \in DOMAIN streams : streams[i].owner = "receiver"

\* number of writes that set or changed answer
AnswerWrites ==
  Cardinality({i \in 2..Len(callLog) :
                 /\ callLog[i].answer # 0
                 /\ (~callLog[i-1].exists \/ callLog[i-1].answer # callLog[i].answer)})

\* the document says connected, both connections have completed the
\* offer/answer exchange, and the caller's holds the answer of the document
BothConnected ==
  /\ Status = "connected"
  /\ callDoc.answer # 0
  /\ AnswerWrites = 1
  /\ peerConnection["caller"] # 0
  /\ pcs[peerConnection["caller"]].sig = "stable"
  /\ pcs[peerConnection["caller"]].remote = callDoc.answer
  /\ peerConnection["receiver"] = callDoc.answer
  /\ pcs[peerConnection["receiver"]].sig = "stable"
  /\ pcs[peerConnection["receiver"]].remote = callDoc.offer

\* C9: if startCall succeeds and the receiver then answers, with no failure
\* and no hangup, eventually the status is connected with answer set, the
\* caller has applied that answer, and answer was written exactly once.
C9_AnswerConnects == ReceiverAnswered ~> BothConnected

C9_Witness == BothConnected /\ ReceiverAnswered

\* the caller's startCall has returned and the call is ringing
CallerRinging == ActiveRecSub("caller") /\ Status = "ringing"

\* the call is recorded as missed and the caller's media is released
CallerMissed == Status = "missed" /\ ~LiveTracks("caller")

\* C10: if startCall succeeds and the receiver never answers, eventually
\* (ring timeout) the call is recorded as missed and the caller's local
\* media is released, without user action.
C10_RingTimeout == CallerRinging ~> (ReceiverAnswered \/ CallerMissed)

\* no invocation is suspended and every listener has received everything
\* written so far: nothing more happens until a user acts
Quiescent ==
  /\ tasks = EmptyBag
  /\ \A i \in DOMAIN recSubs : recSubs[i].active => recSubs[i].seen = Len(callLog)
  /\ \A i \in DOMAIN candSubs : candSubs[i].seen = Len(candidates)

\* the only invocations were the caller's startCall and the receiver's
\* rejectCall, and rejectCall wrote 'rejected' on the ringing call
DeclinedWhileRinging ==
  /\ invocations = 2
  /\ Len(callLog) >= 3
  /\ callLog[2].status = "ringing"
  /\ callLog[3].status = "rejected"

\* session s never acquired local media
NeverAcquired(s) == \A i \in DOMAIN streams : streams[i].owner # s

\* C11: when the receiver has declined a ringing call and rejectCall and
\* every callback it triggered have completed, the status is rejected,
\* endedAt is set and the receiver never acquired local media.
C11_DeclineRecorded ==
  (DeclinedWhileRinging /\ Quiescent) =>
    /\ Status = "rejected"
    /\ callDoc.endedAt # 0
    /\ NeverAcquired("receiver")

\* C12: when the caller's endCall, having released the caller's session and
\* with nothing else of the caller in flight, writes its status on a call that is still ringing, the status becomes ended and neither party's session holds a
\* live local track or an open peer connection.
C12_HangupMidRing ==
  [][\A t \in Running :
       (/\ t.sess = "caller" /\ t.op = "endCall" /\ Status = "ringing"
        /\ \A u \in Running : u.sess = "caller" => u = t
        /\ ~LiveTracks("caller") /\ ~OpenPc("caller")
        /\ endCallUpdate(t))
         => /\ Status' = "ended"
            /\ \A s \in Session : (~LiveTracks(s) /\ ~OpenPc(s))'
    ]_vars

\* listener i hands a malformed candidate of the other user to its session
MalformedDelivery(i) ==
  /\ candSubs[i].seen < Len(candidates)
  /\ ~NextCandidate(i).ok
  /\ WillAddCandidate(candSubs[i].owner, NextCandidate(i))
  /\ candSubs'[i].seen = candSubs[i].seen + 1

\* C13: a malformed remote candidate fails inside the candidate listener,
\* where the failure is caught: the peer connections, the local streams, the
\* session fields, the subscriptions and the call document are unchanged,
\* no further work is started, and the listener moves on to the next document.
C13_MalformedCandidateContained ==
  [][\A i \in DOMAIN candSubs :
       MalformedDelivery(i) =>
         /\ last'.ev = "caught"
         /\ candSubs' = CandDelivered(i)
         /\ UNCHANGED <<callLog, localStream, peerConnection, unsubscribe,
                        streams, pcs, recSubs, tasks>>
    ]_vars

\* on a connected call a listener has been handed a malformed candidate of
\* the other user and has afterwards applied a later candidate
C13_Witness ==
  /\ Status = "connected"
  /\ \E i \in DOMAIN candSubs : \E k \in Malformed : \E g \in WellFormed :
       /\ candidates[k].from # currentUserId(candSubs[i].owner)
       /\ k < g /\ g <= candSubs[i].seen
       /\ peerConnection[candSubs[i].owner] # 0
       /\ g \in pcs[peerConnection[candSubs[i].owner]].applied

\* the document listener i is about to receive has already been delivered
\* to its session by another candidate listener of the same session
Redelivery(i) ==
  /\ candSubs[i].seen < Len(candidates)
  /\ \E j \in DOMAIN candSubs :
       /\ j # i
       /\ candSubs[j].owner = candSubs[i].owner
       /\ candSubs[j].seen > candSubs[i].seen

\* C14: delivering to a session a candidate document it has already been
\* handed once adds nothing to the remote candidates applied to any peer
\* connection.
C14_DuplicateCandidateIgnored ==
  [][\A i \in DOMAIN candSubs :
       (Redelivery(i) /\ candSubs'[i].seen = candSubs[i].seen + 1)
         => \A p \in DOMAIN pcs : pcs'[p].applied = pcs[p].applied
    ]_vars

\* invocation t, suspended at getUserMedia, ends its wait without a stream
\* having been acquired
MediaFailed(t) ==
  /\ t.at = "getUserMedia"
  /\ CopiesIn(t, tasks') < CopiesIn(t, tasks)
  /\ streams' = streams

\* C15: when local media acquisition fails, the attempt ends there with the
\* media error thrown to its caller, and the call document, the candidates
\* and the subscriptions are untouched: startCall has created no document
\* and installed no listener, answerCall has left status and answer as
\* they were.
C15_MediaFailureAborts ==
  [][\A t \in Running :
       MediaFailed(t) =>
         /\ tasks' = Finish(t)
         /\ last' = Event("throwMedia", t.sess, t.op)
         /\ UNCHANGED <<callLog, candidates, recSubs, candSubs, unsubscribe,
                        peerConnection, pcs>>
    ]_vars

\* the receiver's answerCall has just failed on media while the call rings
C15_Witness ==
  /\ last = Event("throwMedia", "receiver", "answerCall")
  /\ Status = "ringing"
  /\ callDoc.answer = 0
  /\ NeverAcquired("receiver")

\* C16: a session's onicecandidate handler appends a document to the
\* candidates collection only when the call document already exists.
C16_CandidateAfterRecord ==
  [][(Len(candidates') > Len(candidates) /\ candidates'[Len(candidates')].ok)
       => callDoc.exists
    ]_vars

\* endCall has run on session s and nothing of s is in flight: the fields
\* are null and a connection of s has been closed
TornDown(s) ==
  /\ localStream[s] = 0 /\ peerConnection[s] = 0 /\ unsubscribe[s] = 0
  /\ \E p \in DOMAIN pcs : pcs[p].owner = s /\ pcs[p].closed
  /\ \A t \in Running : t.sess # s

\* in this step a listener of session s is handed a record snapshot or a
\* candidate document
DeliveredTo(s) ==
  \/ \E i \in DOMAIN recSubs :
       recSubs[i].owner = s /\ recSubs'[i].seen > recSubs[i].seen
  \/ \E i \in DOMAIN candSubs :
       candSubs[i].owner = s /\ candSubs'[i].seen > candSubs[i].seen

\* C17: a record snapshot or candidate document delivered to a session that
\* endCall has torn down is ignored: no connection and no session field
\* changes, no work is started, the call document is not written and no
\* error is raised.
C17_LateDeliveryIgnored ==
  [][\A s \in Session :
       (TornDown(s) /\ DeliveredTo(s)) =>
         /\ UNCHANGED <<callLog, pcs, streams, localStream, peerConnection,
                        unsubscribe, tasks>>
         /\ last'.ev \notin {"caught", "unhandled"}
    ]_vars

\* C18: two different call attempts never obtain the same id.
C18_FreshCallId ==
  \A i \in DOMAIN attempts : \A j \in DOMAIN attempts :
    i # j => attempts[i].id # attempts[j].id

\* C19: once the receiver has declined the ringing call and all the work
\* that started has completed, the call history of the caller shows the
\* call as 'Call declined'.
C19_HistoryShowsDeclined ==
  (DeclinedWhileRinging /\ Quiescent) =>
    getCallStatusText(callDoc, currentUserId("caller")) = "Call declined"

\* a terminal status has been written on the call while it was connected
EndedWhileConnected ==
  \E k \in 1..(Len(callLog) - 1) :
    /\ callLog[k].exists
    /\ callLog[k].status = "connected"
    /\ callLog[k + 1].status \in Terminal

\* the caller applied the receiver's answer: the call was established on
\* both sides before anything was torn down
WasEstablished ==
  \E p \in DOMAIN pcs : pcs[p].owner = "caller" /\ pcs[p].remote # 0

\* C20: once a terminal status has been written on an established call and
\* everything that can run without a user acting has run, both sessions are
\* torn down: no live local track, no open peer connection.
C20_RemoteEndTearsDown ==
  (WasEstablished /\ EndedWhileConnected /\ Quiescent) =>
    \A s \in Session : ~LiveTracks(s) /\ ~OpenPc(s)

\* an application of the answer that the listener started on connection
\* t.pc, still open, settles in this step
AnswerSettles(t) ==
  /\ t.op = "listener" /\ t.at = "setRemoteDescription"
  /\ ~pcs[t.pc].closed
  /\ CopiesIn(t, tasks') < CopiesIn(t, tasks)

\* C21: however many snapshots carrying the answer the caller's listener
\* receives, also while an earlier application is still suspended, every
\* application it starts on an open connection succeeds and is the first
\* one: none rejects and none finds the answer already applied.
C21_AnswerAppliedOnce ==
  [][\A t \in Running :
       AnswerSettles(t) =>
         /\ last'.ev # "unhandled"
         /\ pcs[t.pc].remote = 0
         /\ pcs'[t.pc].remote = t.data
    ]_vars

\* C22: a session acquires a local stream only while it holds none: no
\* step hands a new stream to a session whose localStream is already set.
C22_SingleLocalStream ==
  [][Len(streams') > Len(streams)
       => localStream[streams'[Len(streams')].owner] = 0
    ]_vars

\* the caller holds an open connection to which the answer has been applied
CallerAnswered ==
  /\ peerConnection["caller"] # 0
  /\ ~pcs[peerConnection["caller"]].closed
  /\ pcs[peerConnection["caller"]].remote # 0

\* C23: once the answer has been applied to the caller's connection and
\* nothing is left in flight, every candidate of the receiver that was
\* delivered to the caller's candidate listener, also one delivered before
\* the answer was applied, has been applied to that connection.
C23_EarlyCandidateKept ==
  (CallerAnswered /\ Quiescent) =>
    \A i \in DOMAIN candSubs : \A k \in WellFormed :
      (/\ candSubs[i].owner = "caller"
       /\ k <= candSubs[i].seen
       /\ candidates[k].from = currentUserId("receiver"))
        => k \in pcs[peerConnection["caller"]].applied

\* C24: each session's onRemoteStream callback is invoked at most once.
C24_RemoteStreamOnce == \A s \in Session : remoteStreamCalls[s] <= 1

\* C25: startCall acquires media, creates the connection and the offer,
\* publishes the call document, and only then subscribes: whenever the call
\* document exists, the connection whose offer it carries belongs to the
\* caller, was given the tracks of an acquired stream and has the offer as
\* its local description; and whenever the caller has a listener on the
\* document or on the candidates, the document exists.
C25_StartCallOrder ==
  /\ callDoc.exists =>
       /\ callDoc.offer \in DOMAIN pcs
       /\ pcs[callDoc.offer].owner = "caller"
       /\ pcs[callDoc.offer].tracks \in DOMAIN streams
       /\ pcs[callDoc.offer].local
  /\ (\E i \in DOMAIN recSubs : recSubs[i].owner = "caller") => callDoc.exists
  /\ (\E i \in DOMAIN candSubs : candSubs[i].owner = "caller") => callDoc.exists

\* startCall has returned: the document is published and both listeners of
\* the caller are installed
C25_Witness ==
  /\ last = Event("return", "caller", "startCall")
  /\ Status = "ringing"
  /\ ActiveRecSub("caller")
  /\ ActiveCandSub("caller")

\* rejectCall's status write fails: the invocation t, the only thing its
\* session has in flight, ends at its updateDoc
RejectWriteFailed(t) ==
  /\ t.op = "rejectCall" /\ t.at = "rejectUpdate"
  /\ \A u \in Running : u.sess = t.sess => u = t
  /\ tasks' = Finish(t)

\* C26: when rejectCall's status write fails, the local cleanup of endCall
\* has still been run when rejectCall ends: the session holds no stream, no
\* connection and no subscription.
C26_RejectAlwaysTearsDown ==
  [][\A t \in Running :
       RejectWriteFailed(t) =>
         /\ localStream'[t.sess] = 0
         /\ peerConnection'[t.sess] = 0
         /\ unsubscribe'[t.sess] = 0
    ]_vars

\* the step is a call of toggleAudio or toggleVideo on session s
Toggled(s) ==
  /\ last'.sess = s
  /\ last'.op \in {"toggleAudio", "toggleVideo"}
  /\ <<last, disabled, streams>> # <<last', disabled', streams'>>

\* the kind of track a toggle method acts on
ToggledKind(op) == IF op = "toggleAudio" THEN "audio" ELSE "video"

\* C27: toggleAudio and toggleVideo return normally and change at most the
\* enabled flag of the tracks of their kind in the session's local stream:
\* the connections, the streams, the session fields, the subscriptions, the
\* call document and the candidates are unchanged, and when the session
\* holds no local stream no flag changes either.
C27_ToggleOnlySetsEnabled ==
  [][\A s \in Session :
       Toggled(s) =>
         /\ last'.ev = "return"
         /\ UNCHANGED <<callLog, candidates, localStream, peerConnection,
                        unsubscribe, streams, pcs, recSubs, candSubs, tasks,
                        trackEvents, remoteStream, remoteStreamCalls>>
         /\ localStream[s] = 0 => disabled' = disabled
         /\ \A e \in (disabled' \ disabled) \cup (disabled \ disabled') :
              e = <<localStream[s], ToggledKind(last'.op)>>
    ]_vars

\* a track was muted while its stream was held, and a toggle has just been
\* called on a session that has been torn down and holds no stream
C27_Witness ==
  /\ last.op \in {"toggleAudio", "toggleVideo"}
  /\ localStream[last.sess] = 0
  /\ \E p \in DOMAIN pcs : pcs[p].owner = last.sess /\ pcs[p].closed
  /\ disabled # {}

\* startCall ran to its last statement: its candidates listener is installed
StartCallCompleted == \E i \in DOMAIN candSubs : candSubs[i].owner = "caller"

\* C28: when endCall has been invoked while startCall was suspended, no
\* await of startCall has failed, and both have finished, with every
\* snapshot delivered, the caller's session
\* holds no live local track, no open connection and no active listener on
\* the call document, and the call document does not say ringing.
C28_HangupDuringStart ==
  (invocations >= 2 /\ StartCallCompleted /\ Quiescent) =>
    /\ ~LiveTracks("caller")
    /\ ~OpenPc("caller")
    /\ ~ActiveRecSub("caller")
    /\ Status # "ringing"

\* C29: in every state the call document has been in, status connected
\* comes with an answer.
C29_ConnectedHasAnswer ==
  \A k \in DOMAIN callLog :
    (callLog[k].exists /\ callLog[k].status = "connected") => callLog[k].answer # 0

\* answerCall has returned on a call that a second startCall had written
\* anew: the document is connected and carries the answer
C29_Witness ==
  /\ last = Event("return", "receiver", "answerCall")
  /\ Status = "connected"
  /\ callDoc.answer # 0
  /\ \E k \in 2..(Len(callLog) - 1) : callLog[k + 1].status = "ringing"

\* the endCall that a record listener of its session started writes its
\* status in this step
ListenerEndCallWrites(t) ==
  /\ t.op = "listener" /\ t.at = "updateDoc"
  /\ CopiesIn(t, tasks') < CopiesIn(t, tasks)
  /\ Len(callLog') > Len(callLog)

\* C30: the endCall started by a session's record listener has cancelled
\* the session's record subscriptions before it writes, so that its write
\* is delivered to no listener of that session and cannot start another
\* endCall.
C30_TerminalHandlingTerminates ==
  [][\A t \in Running :
       ListenerEndCallWrites(t) => ~ActiveRecSub(t.sess)
    ]_vars
====
